---- MODULE Spec2Model ----
(***************************************************************************)
(* otable: over-the-air firmware update over BLE for MicroPython.          *)
(*                                                                         *)
(* The model covers the on-device agent of src/core/main.py: the           *)
(* advertising supervisor (OtaBle.advertise), the per-connection workflow  *)
(* task (OtaBle.workflow), the archive extraction (tar_expand) and the     *)
(* filesystem swap, under the cooperative single-threaded scheduler of     *)
(* asyncio.  The peer and the BLE link are the environment.                *)
(*                                                                         *)
(* Byte strings are sequences of numbers 0..255.  Paths and file contents  *)
(* are sequences of one-character strings.                                 *)
(***************************************************************************)
EXTENDS Integers, Sequences, FiniteSets, TLC

(***************************************************************************)
(* Bounds of the model.                                                    *)
(***************************************************************************)
MaxWrites == 4      \* writes the peers perform on the control characteristic
MaxConn   == 2      \* connections accepted (one workflow task each)
MaxFaults == 1      \* filesystem operations that fail for an outside reason
MaxFiles  == 13     \* files of the largest flat source directory

(***************************************************************************)
(* Program constants.                                                      *)
(***************************************************************************)
HashLen   == 20     \* len(data) != 20
BlockLen  == 16     \* AES block; the uploader pads to 128 bits
VersionLen == 20    \* f.read()[:20]
ChunkLen  == 20     \* range(0, len(ciphertext), 20)
PaxLen    == 10     \* name[-10:] == "@PaxHeader"

NoTask == 0 - 1     \* no task holds the processor
Supervisor == 0     \* the task of OtaBle.advertise; workflow tasks are 1, 2, ...

(***************************************************************************)
(* Sequence helpers.                                                       *)
(***************************************************************************)
Min(a, b) == IF a < b THEN a ELSE b

Take(s, n) == SubSeq(s, 1, Min(n, Len(s)))

Drop(s, n) == SubSeq(s, n + 1, Len(s))

LastN(s, n) == IF Len(s) <= n THEN s ELSE SubSeq(s, Len(s) - n + 1, Len(s))

Zeros(n) == [i \in 1..n |-> 0]

RECURSIVE WeightedSum(_, _, _)
WeightedSum(s, i, k) ==
    IF i > Len(s) THEN 0 ELSE s[i] * (i + k) + WeightedSum(s, i + 1, k)

(***************************************************************************)
(* hashlib.sha1(x).digest(): a 20-byte digest that depends on every byte,  *)
(* on its position and on the length of the input.                         *)
(***************************************************************************)
Sha1(s) == [k \in 1..HashLen |-> (Len(s) + 1 + WeightedSum(s, 1, k)) % 256]

(***************************************************************************)
(* The shared key (binascii.unhexlify(f.read()[:32]), 16 bytes) and the    *)
(* block cipher in ECB mode: every 16-byte block is transformed on its own *)
(* by a keyed permutation; decrypt inverts encrypt.  Decryption of a       *)
(* buffer whose length is no multiple of 16 raises ValueError.             *)
(***************************************************************************)
Key == [i \in 1..BlockLen |-> (7 * i + 3) % 256]

EncryptBlock(key, b) == [i \in 1..BlockLen |-> (b[BlockLen + 1 - i] + key[i]) % 256]

DecryptBlock(key, c) ==
    [j \in 1..BlockLen |-> (c[BlockLen + 1 - j] - key[BlockLen + 1 - j]) % 256]

RECURSIVE EcbEncrypt(_, _)
EcbEncrypt(key, s) ==
    IF Len(s) = 0 THEN <<>>
    ELSE EncryptBlock(key, Take(s, BlockLen)) \o EcbEncrypt(key, Drop(s, BlockLen))

RECURSIVE EcbDecrypt(_, _)
EcbDecrypt(key, s) ==
    IF Len(s) = 0 THEN <<>>
    ELSE DecryptBlock(key, Take(s, BlockLen)) \o EcbDecrypt(key, Drop(s, BlockLen))

DecryptRaises(s) == Len(s) % BlockLen # 0

(***************************************************************************)
(* Paths.  A name is a sequence of characters; the filesystem resolves it  *)
(* into its components, "." and empty components naming the directory      *)
(* itself.                                                                 *)
(***************************************************************************)
RECURSIVE Split(_, _, _)
Split(s, i, cur) ==
    IF i > Len(s) THEN (IF cur = <<>> THEN <<>> ELSE <<cur>>)
    ELSE IF s[i] = "/"
         THEN (IF cur = <<>> THEN <<>> ELSE <<cur>>) \o Split(s, i + 1, <<>>)
         ELSE Split(s, i + 1, Append(cur, s[i]))

IsRealComponent(c) == c # <<".">>

Resolve(name) == SelectSeq(Split(name, 1, <<>>), IsRealComponent)

Parent(p) == SubSeq(p, 1, Len(p) - 1)

(***************************************************************************)
(* A directory tree: a function from resolved paths to nodes.  The root of *)
(* the tree is the empty path and is not in the domain.                    *)
(***************************************************************************)
EmptyTree == << >>

\* what is at a directory path: nothing, or a directory holding a tree
NoDir == [present |-> FALSE, tree |-> EmptyTree]

Dir(t) == [present |-> TRUE, tree |-> t]

DirNode == [type |-> "dir", data |-> <<>>]

FileNode(d) == [type |-> "file", data |-> d]

IsDir(t, p) == p = <<>> \/ (p \in DOMAIN t /\ t[p].type = "dir")

Put(t, p, node) == [q \in DOMAIN t \cup {p} |-> IF q = p THEN node ELSE t[q]]

\* os.mkdir(path): OSError when the path exists or its parent is no directory
MkdirRaises(t, p) == p = <<>> \/ p \in DOMAIN t \/ ~IsDir(t, Parent(p))

\* open(path, "wb"): OSError when the path is a directory or its parent is none
OpenRaises(t, p) == p = <<>> \/ IsDir(t, p) \/ ~IsDir(t, Parent(p))

(***************************************************************************)
(* The archive container.  The compressed stream is a header byte, one     *)
(* code per archive entry (an index into the entry dictionary) and an      *)
(* end-of-stream byte; what follows the end of the stream is not read.     *)
(* Reading fails on a wrong header, on a code outside the dictionary and   *)
(* on a stream that stops before its end byte; the entries read before the *)
(* failure have been handed to the caller by then.                         *)
(***************************************************************************)
ZMagic == 120
ZEnd == 255

VersionName == <<"v", "e", "r", "s", "i", "o", "n">>
PaxSuffix == <<"@", "P", "a", "x", "H", "e", "a", "d", "e", "r">>

EntryTable ==
    << [name |-> <<".", "/">> \o PaxSuffix, type |-> "file", data |-> <<"p">>],
       [name |-> <<".", "/", "a">>, type |-> "dir", data |-> <<>>],
       [name |-> <<".", "/", "a", "/", ".", "/", "b", ".", "t", "x", "t">>,
        type |-> "file", data |-> <<"b">>],
       [name |-> <<".", "/">> \o VersionName, type |-> "file",
        data |-> <<"1", ".", "0", ".", "0">>],
       [name |-> <<"c", "/", "d">>, type |-> "file", data |-> <<"d">>] >>

\* the entries tarfile.TarFile.add('.') writes for the source directories:
\* the directory '.' itself, a nested file, and the files of a flat directory
FlatNames ==
    <<"f", "g", "h", "i", "j", "k", "l", "m", "n", "o", "p", "q", "r", "s", "t", "u">>

FlatEntry(i) ==
    [name |-> <<".", "/", FlatNames[i]>>, type |-> "file", data |-> <<FlatNames[i]>>]

SourceTable ==
    [c \in {6, 7} \cup {10 + i : i \in 1..Len(FlatNames)} |->
        IF c = 6 THEN [name |-> <<".">>, type |-> "dir", data |-> <<>>]
        ELSE IF c = 7
             THEN [name |-> <<".", "/", "a", "/", "b", ".", "t", "x", "t">>,
                   type |-> "file", data |-> <<"b">>]
             ELSE FlatEntry(c - 10)]

\* an entry whose name starts with more than one "./"
DotDotEntry ==
    [name |-> <<".", "/", ".", "/", "e">>, type |-> "file", data |-> <<"e">>]

Dictionary == EntryTable @@ SourceTable @@ (8 :> DotDotEntry)

RECURSIVE Inflate(_, _)
Inflate(s, i) ==
    IF i > Len(s) THEN [entries |-> <<>>, ok |-> FALSE]
    ELSE IF s[i] = ZEnd THEN [entries |-> <<>>, ok |-> TRUE]
    ELSE IF s[i] \notin DOMAIN Dictionary THEN [entries |-> <<>>, ok |-> FALSE]
    ELSE LET rest == Inflate(s, i + 1)
         IN  [entries |-> <<Dictionary[s[i]]>> \o rest.entries, ok |-> rest.ok]

\* deflate.DeflateIO(data_stream, deflate.ZLIB) read through tarfile.TarFile
TarRead(s) ==
    IF Len(s) = 0 \/ s[1] # ZMagic THEN [entries |-> <<>>, ok |-> FALSE]
    ELSE Inflate(s, 2)

(***************************************************************************)
(* tar_expand: the loop body for one entry, on the staging directory d     *)
(* (NoDir when os.mkdir(root) did not produce it).  fault: the filesystem  *)
(* refuses the operation for an outside reason (disk full).                *)
(***************************************************************************)
\* an if in place of the while: one "./" is removed
StripOneDotSlash(name) ==
    IF Take(name, 2) = <<".", "/">> THEN Drop(name, 2) ELSE name

RECURSIVE StripDotSlash(_)
StripDotSlash(name) ==
    IF Take(name, 2) = <<".", "/">> THEN StripDotSlash(Drop(name, 2)) ELSE name

IsPaxHeader(name) == LastN(name, PaxLen) = PaxSuffix

ExpandEntry(d, e, fault) ==
    IF IsPaxHeader(e.name) THEN d
    ELSE LET p == Resolve(StripDotSlash(e.name))
             t == d.tree
         IN  IF ~d.present \/ fault THEN d
             ELSE IF e.type = "dir"
                  THEN (IF MkdirRaises(t, p) THEN d ELSE Dir(Put(t, p, DirNode)))
                  ELSE (IF OpenRaises(t, p) THEN d
                        ELSE Dir(Put(t, p, FileNode(e.data))))

\* an extraction that gives up at the first entry that fails
RECURSIVE ExpandUntilError(_, _, _, _)
ExpandUntilError(d, entries, i, faults) ==
    IF i > Len(entries) THEN d
    ELSE LET n == ExpandEntry(d, entries[i], i \in faults)
         IN  IF n = d /\ ~IsPaxHeader(entries[i].name) THEN d
             ELSE ExpandUntilError(n, entries, i + 1, faults)

RECURSIVE ExpandFrom(_, _, _, _)
ExpandFrom(d, entries, i, faults) ==
    IF i > Len(entries) THEN d
    ELSE ExpandFrom(ExpandEntry(d, entries[i], i \in faults), entries, i + 1, faults)

\* os.mkdir(root) inside try/except OSError: pass
MkdirRoot(staging, fault) ==
    IF ~staging.present /\ ~fault THEN Dir(EmptyTree) ELSE staging

\* the staging directory after tar_expand(data, "/new_firmware"); fault 0 is the
\* mkdir of the root, fault i the operation of the i-th entry
TarExpand(data, staging, faults) ==
    ExpandFrom(MkdirRoot(staging, 0 \in faults), TarRead(data).entries, 1, faults)

\* tar_expand raises: the stream cannot be read to its end
TarExpandRaises(data) == ~TarRead(data).ok

(***************************************************************************)
(* The uploader's preparation of the payload (src/send/send.py).           *)
(***************************************************************************)
\* the characters of the names, in the order of their codes
Charset ==
    <<".", "@", "H", "P", "a", "b", "c", "d", "e", "f", "g", "h", "i", "j", "k",
      "l", "m", "n", "o", "p", "q", "r", "s", "t", "u", "v", "w", "x", "y", "z">>

Ord(c) == CHOOSE i \in 1..Len(Charset) : Charset[i] = c

RECURSIVE NameLess(_, _)
NameLess(x, y) ==
    IF x = <<>> THEN y # <<>>
    ELSE IF y = <<>> THEN FALSE
    ELSE IF x[1] = y[1] THEN NameLess(Tail(x), Tail(y))
    ELSE Ord(x[1]) < Ord(y[1])

\* sorted(os.listdir(name))
RECURSIVE Sorted(_)
Sorted(names) ==
    IF names = {} THEN <<>>
    ELSE LET m == CHOOSE x \in names : \A y \in names \ {x} : NameLess(x, y)
         IN  <<m>> \o Sorted(names \ {m})

Listdir(t, p) == {q[Len(q)] : q \in {r \in DOMAIN t : Parent(r) = p}}

\* the name of a path below '.': os.path.join(name, f)
RECURSIVE Join(_)
Join(p) == IF p = <<>> THEN <<".">> ELSE Join(Parent(p)) \o <<"/">> \o p[Len(p)]

TarInfo(t, p) ==
    IF p = <<>> THEN [name |-> Join(p), type |-> "dir", data |-> <<>>]
    ELSE [name |-> Join(p), type |-> t[p].type, data |-> t[p].data]

\* TarFile.add(name): the entry itself, then for a directory every name in it,
\* in sorted order, recursively
RECURSIVE TarAdd(_, _), TarAddAll(_, _, _)
TarAdd(t, p) ==
    <<TarInfo(t, p)>> \o
    (IF IsDir(t, p) THEN TarAddAll(t, p, Sorted(Listdir(t, p))) ELSE <<>>)

TarAddAll(t, p, names) ==
    IF names = <<>> THEN <<>>
    ELSE TarAdd(t, Append(p, Head(names))) \o TarAddAll(t, p, Tail(names))

\* the archive written to the buffer: every entry by its code
TarWrite(entries) ==
    [i \in 1..Len(entries) |->
        CHOOSE c \in DOMAIN Dictionary : Dictionary[c] = entries[i]]

\* buffer.getvalue() after tf.add('.') in the source directory
Archive(t) == TarWrite(TarAdd(t, <<>>))

\* zlib.compress(buffer.getvalue()) of an archive with these entries
Deflate(codes) == <<ZMagic>> \o codes \o <<ZEnd>>

\* compressed + b'\x00' * (16 - len(compressed) % 16)
Pad(c) == c \o Zeros(BlockLen - (Len(c) % BlockLen))

UploadDigest(codes) == Sha1(Pad(Deflate(codes)))

UploadCipher(codes) == EcbEncrypt(Key, Pad(Deflate(codes)))

\* a split that leaves out the short chunk at the end
ChunksOfFullLength(c) ==
    [i \in 1..(Len(c) \div ChunkLen) |->
        SubSeq(c, ChunkLen * (i - 1) + 1, ChunkLen * i)]

\* ciphertext[i:i+20] for i in range(0, len(ciphertext), 20)
RECURSIVE Chunks(_)
Chunks(c) ==
    IF Len(c) = 0 THEN <<>>
    ELSE <<Take(c, ChunkLen)>> \o Chunks(Drop(c, ChunkLen))

\* the writes of one run of the uploader
UploadWrites(codes) ==
    <<UploadDigest(codes)>> \o Chunks(UploadCipher(codes)) \o << <<>> >>

(***************************************************************************)
(* What the peers write.  Image is a well-formed firmware archive; Broken  *)
(* is a payload whose digest matches but whose stream is corrupt after its *)
(* first entry.  A peer may write them in any order: a cipher block or the *)
(* empty write where the digest is expected (a first chunk of 16 or 0      *)
(* bytes), a digest where data is expected (20 bytes, which breaks the     *)
(* block alignment), a digest that belongs to the other payload.           *)
(***************************************************************************)
Image == <<1, 2, 3, 4>>

BrokenPlain == Pad(<<ZMagic, 4, 9, ZEnd>>)

GoodDigest == UploadDigest(Image)
GoodCipher == UploadCipher(Image)
BrokenDigest == Sha1(BrokenPlain)
BrokenCipher == EcbEncrypt(Key, BrokenPlain)
Terminator == <<>>

PeerWrites == {GoodDigest, GoodCipher, BrokenDigest, BrokenCipher, Terminator}

\* the firmware on the device before any update
OldTree ==
    Put(Put(EmptyTree, <<VersionName>>, FileNode(<<"0", ".", "9">>)),
        << <<"m", "a", "i", "n">> >>, FileNode(<<"o", "l", "d">>))

(***************************************************************************)
(* The source directories given to the uploader: flat directories of up to *)
(* MaxFiles files, the parent-closed parts of a nested directory, and a    *)
(* directory holding a file whose name ends in "@PaxHeader".               *)
(***************************************************************************)
RECURSIVE FlatTree(_)
FlatTree(n) ==
    IF n = 0 THEN EmptyTree
    ELSE Put(FlatTree(n - 1), << <<FlatNames[n]>> >>, FileNode(<<FlatNames[n]>>))

NestedTree ==
    Put(Put(Put(EmptyTree, << <<"a">> >>, DirNode),
            << <<"a">>, <<"b", ".", "t", "x", "t">> >>, FileNode(<<"b">>)),
        <<VersionName>>, FileNode(<<"1", ".", "0", ".", "0">>))

Restrict(t, paths) == [q \in paths |-> t[q]]

ParentClosed(paths) == \A q \in paths : Parent(q) = <<>> \/ Parent(q) \in paths

SubTrees(t) == {Restrict(t, paths) : paths \in {x \in SUBSET DOMAIN t : ParentClosed(x)}}

PaxTree == Put(EmptyTree, <<PaxSuffix>>, FileNode(<<"p">>))

SourceTrees == {FlatTree(n) : n \in 0..MaxFiles} \cup SubTrees(NestedTree) \cup {PaxTree}

\* one run of the uploader on a source directory
UploaderRun(t) == UploadWrites(Archive(t))

\* runs of the uploader on archives made by other tools: Image, an archive
\* whose first entry lacks its parent directory, an archive that names a
\* directory twice, an archive with a name that starts with "././"
HandMade == {Image, <<5, 4>>, <<2, 2, 3>>, <<8, 4>>}

\* peers that do not follow the protocol: one writes on after its terminator,
\* one starts with a 16-byte write and goes on
WritesAfterTerminator == <<GoodDigest, GoodCipher, Terminator, BrokenCipher>>

BadFirstThenMore == <<GoodCipher, BrokenDigest>>

PeerRuns ==
    {UploaderRun(t) : t \in SourceTrees} \cup {UploadWrites(a) : a \in HandMade}
    \cup {WritesAfterTerminator, BadFirstThenMore}

\* what the peers do from power-up on: one run, or a run of the uploader after
\* a peer that left writes behind
Sessions == {<<r>> : r \in PeerRuns} \cup {<<BadFirstThenMore, UploaderRun(NestedTree)>>}

(***************************************************************************)
(* State.                                                                  *)
(***************************************************************************)
VARIABLES
    firmware,       \* the live directory "firmware"
    new_firmware,   \* the staging directory "new_firmware"
    version,        \* value of the version characteristic
    device,         \* "running", or "resetting" after machine.soft_reset()
    sup,            \* where OtaBle.advertise is
    conn,           \* the BLE link: "none", "connected", "dropped"
    queue,          \* writes captured on the control characteristic, unread
    wf,             \* the workflow tasks, by task number
    nconn,          \* workflow tasks created so far
    runq,           \* tasks ready to run, in scheduling order
    cur,            \* the task running between two suspension points
    nwrites,        \* writes performed so far
    nfaults,        \* filesystem faults so far
    upload          \* the uploader (src/send/send.py), when it is the peer

vars == <<firmware, new_firmware, version, device, sup, conn, queue, wf, nconn,
          runq, cur, nwrites, nfaults, upload>>

Tasks == 1..MaxConn

NoWorkflow ==
    [pc |-> "none", cancel |-> FALSE, target_hash |-> <<>>, received_data |-> <<>>,
     live0 |-> NoDir, stage0 |-> NoDir]

AwaitingPcs == {"await_digest", "await_chunk"}

RunningPcs == {"decrypt", "expand", "rmtree", "rename", "reset"}

ActivePcs == {"created"} \cup AwaitingPcs \cup RunningPcs

InRunq(t) == \E k \in 1..Len(runq) : runq[k] = t

\* the uploader: the writes of each of its runs, the run that is connected
\* (0 before the first) and the writes that run has performed
NoUpload == [runs |-> <<>>, run |-> 0, sent |-> 0]

DeviceInit ==
    /\ firmware \in {NoDir, Dir(OldTree)}
    /\ new_firmware = NoDir
    /\ version = <<>>
    /\ device = "running"
    /\ sup = "init"
    /\ conn = "none"
    /\ queue = <<>>
    /\ wf = [i \in Tasks |-> NoWorkflow]
    /\ nconn = 0
    /\ runq = <<Supervisor>>
    /\ cur = NoTask
    /\ nwrites = 0
    /\ nfaults = 0

Init == DeviceInit /\ upload = NoUpload

\* the scheduler resumes the task at the head of the run queue
Resumes(t) == device = "running" /\ cur = NoTask /\ runq # <<>> /\ Head(runq) = t

\* the task is running and has not reached a suspension point
Holds(t) == device = "running" /\ cur = t

(***************************************************************************)
(* OtaBle.advertise: the supervisor.                                       *)
(***************************************************************************)
VersionPath == <<VersionName>>

\* open("/firmware/version", "r") raises OSError
VersionMissing(fw) ==
    ~fw.present \/ VersionPath \notin DOMAIN fw.tree \/ fw.tree[VersionPath].type # "file"

\* the value of the version characteristic after the read at the top of advertise
VersionRead(fw, old) ==
    IF VersionMissing(fw) THEN old ELSE Take(fw.tree[VersionPath].data, VersionLen)

\* advertise() up to its first await: read the version file, enter the loop and
\* wait in aioble.advertise for a connection
AdvertiseStart ==
    /\ Resumes(Supervisor)
    /\ sup = "init"
    /\ version' = VersionRead(firmware, version)
    /\ sup' = "advertising"
    /\ runq' = Tail(runq)
    /\ UNCHANGED <<firmware, new_firmware, device, conn, queue, wf, nconn, cur,
                   nwrites, nfaults, upload>>

\* a peer connects while the device advertises: aioble.advertise returns
Connect ==
    /\ device = "running"
    /\ sup = "advertising"
    /\ conn = "none"
    /\ nconn < MaxConn
    /\ conn' = "connected"
    /\ runq' = Append(runq, Supervisor)
    /\ UNCHANGED <<firmware, new_firmware, version, device, sup, queue, wf, nconn,
                   cur, nwrites, nfaults>>

\* workflow_task = asyncio.create_task(self.workflow()), then
\* await connection.disconnected()
SupervisorSpawn ==
    /\ Resumes(Supervisor)
    /\ sup = "advertising"
    /\ conn # "none"
    /\ nconn' = nconn + 1
    /\ wf' = [wf EXCEPT ![nconn + 1] =
                 [NoWorkflow EXCEPT !.pc = "created", !.live0 = firmware,
                                    !.stage0 = new_firmware]]
    /\ sup' = "waiting"
    /\ runq' = Tail(runq) \o <<nconn + 1>> \o
               (IF conn = "dropped" THEN <<Supervisor>> ELSE <<>>)
    /\ UNCHANGED <<firmware, new_firmware, version, device, conn, queue, cur,
                   nwrites, nfaults, upload>>

\* the link drops: connection.disconnected() completes
Disconnect ==
    /\ device = "running"
    /\ conn = "connected"
    /\ conn' = "dropped"
    /\ runq' = IF sup = "waiting" THEN Append(runq, Supervisor) ELSE runq
    /\ UNCHANGED <<firmware, new_firmware, version, device, sup, queue, wf, nconn,
                   cur, nwrites, nfaults>>

\* the task workflow_task.cancel() is called on
CancelledTask == nconn

\* a cancel that does nothing
CancelNothing(w, t) == w

\* Task.cancel(): nothing for a finished task; otherwise the task is resumed
\* with CancelledError at the await it is suspended in
CancelTask(w, t) ==
    IF w[t].pc \in ActivePcs THEN [w EXCEPT ![t].cancel = TRUE] ELSE w

\* workflow_task.cancel(), then the loop awaits aioble.advertise again
SupervisorCancel ==
    /\ Resumes(Supervisor)
    /\ sup = "waiting"
    /\ conn = "dropped"
    /\ wf' = CancelTask(wf, CancelledTask)
    /\ runq' = Tail(runq) \o
               (IF wf[CancelledTask].pc \in ActivePcs /\ ~InRunq(CancelledTask)
                THEN <<CancelledTask>> ELSE <<>>)
    /\ conn' = "none"
    /\ sup' = "advertising"
    /\ UNCHANGED <<firmware, new_firmware, version, device, queue, nconn, cur,
                   nwrites, nfaults, upload>>

(***************************************************************************)
(* The peer writes the control characteristic.  The characteristic         *)
(* captures the write (capture=True) and wakes the tasks waiting in        *)
(* written().                                                              *)
(***************************************************************************)
Waiting(t) == wf[t].pc \in AwaitingPcs /\ ~InRunq(t) /\ cur # t

RECURSIVE Wake(_, _)
Wake(q, t) ==
    IF t > MaxConn THEN q
    ELSE Wake(IF Waiting(t) THEN Append(q, t) ELSE q, t + 1)

Write(data) ==
    /\ device = "running"
    /\ conn = "connected"
    /\ nwrites < MaxWrites
    /\ nwrites' = nwrites + 1
    /\ queue' = Append(queue, data)
    /\ runq' = Wake(runq, 1)
    /\ UNCHANGED <<firmware, new_firmware, version, device, sup, conn, wf, nconn,
                   cur, nfaults>>

(***************************************************************************)
(* OtaBle.workflow: one task per connection.                               *)
(***************************************************************************)
\* a length check that lets short first chunks through
HashLengthAtMost(data) == Len(data) <= HashLen

\* len(data) != 20 is the error
HashLengthOk(data) == Len(data) = HashLen

\* an end test that takes any chunk shorter than a full one for the end
IsShortChunk(data) == Len(data) < ChunkLen

\* data == b"" ends the accumulation
IsTerminator(data) == data = <<>>

\* a comparison of the lengths of the digests only
HashLengthsMatch(actual, target) == Len(actual) = Len(target)

\* a comparison that is skipped when nothing was received
HashMatchesUnlessEmpty(actual, target) == actual = target \/ actual = Sha1(<<>>)

\* actual_hash != target_hash is the error
HashMatches(actual, target) == actual = target

\* an await between the deletion of the live tree and the rename
YieldsBeforeRename(pc) == pc = "rename"

\* the steps after the terminator hold the processor: none of them awaits
YieldsBefore(pc) == FALSE

\* the run queue once task t, running now, has been taken off its head
RunqAfter(t) == IF cur = t THEN runq ELSE Tail(runq)

\* await self.control.written() with the captured writes q: with none the
\* task is suspended until a write wakes it; with one captured the call
\* either returns without suspending or suspends the task, which is ready
\* again at once (which of the two depends on the BLE library)
AwaitWritten(t, q) ==
    \/ /\ q # <<>>
       /\ cur' = t
       /\ runq' = RunqAfter(t)
    \/ /\ cur' = NoTask
       /\ runq' = IF q # <<>> THEN Append(RunqAfter(t), t) ELSE RunqAfter(t)

\* task t runs: it holds the processor, or the scheduler resumes it and no
\* cancellation is pending
Runs(t) == Holds(t) \/ (Resumes(t) /\ ~wf[t].cancel)

\* task t goes on to step pc without leaving the processor
Continue(t, pc) ==
    /\ cur' = IF YieldsBefore(pc) THEN NoTask ELSE t
    /\ runq' = IF YieldsBefore(pc) THEN Append(RunqAfter(t), t) ELSE RunqAfter(t)

\* a task whose end takes the event loop down with it: the processor is
\* never handed to another task
FinishStopsLoop(t) == cur' = t /\ runq' = RunqAfter(t)

\* task t ends
Finish(t) == cur' = NoTask /\ runq' = RunqAfter(t)

\* the record of a task that ended in state pc: its locals are gone
Ended(w, pc) == [w EXCEPT !.pc = pc, !.target_hash = <<>>, !.received_data = <<>>]

\* no handler: the CancelledError leaves the task
CancelledEscapes == "raised_cancelled"

\* except asyncio.CancelledError: pass -- the task ends as a normal return
CancelledExit == "cancelled"

\* the task is resumed with CancelledError at the await it is suspended in
WorkflowCancelled(t) ==
    /\ Resumes(t)
    /\ wf[t].cancel
    /\ wf[t].pc \in ActivePcs
    /\ wf' = [wf EXCEPT ![t] = Ended(@, CancelledExit)]
    /\ runq' = Tail(runq)
    /\ UNCHANGED <<firmware, new_firmware, version, device, sup, conn, queue, nconn,
                   cur, nwrites, nfaults, upload>>

\* the task starts and awaits the first write
WorkflowStart(t) ==
    /\ Resumes(t)
    /\ ~wf[t].cancel
    /\ wf[t].pc = "created"
    /\ wf' = [wf EXCEPT ![t].pc = "await_digest"]
    /\ AwaitWritten(t, queue)
    /\ UNCHANGED <<firmware, new_firmware, version, device, sup, conn, queue, nconn,
                   nwrites, nfaults, upload>>

\* connection, data = await self.control.written(); the 20 byte sha1 hash
WorkflowDigest(t) ==
    /\ Runs(t)
    /\ wf[t].pc = "await_digest"
    /\ IF queue = <<>>
       THEN /\ AwaitWritten(t, queue)
            /\ UNCHANGED <<queue, wf>>
       ELSE /\ queue' = Tail(queue)
            /\ IF HashLengthOk(Head(queue))
               THEN /\ wf' = [wf EXCEPT ![t].pc = "await_chunk",
                                        ![t].target_hash = Head(queue),
                                        ![t].received_data = <<>>]
                    /\ AwaitWritten(t, Tail(queue))
               ELSE /\ wf' = [wf EXCEPT ![t] = Ended(@, "badlen")]
                    /\ Finish(t)
    /\ UNCHANGED <<firmware, new_firmware, version, device, sup, conn, nconn,
                   nwrites, nfaults, upload>>

\* an accumulation that puts the new chunk in front
AccumulateInFront(buffer, data) == data \o buffer

\* received_data += data
Accumulate(buffer, data) == buffer \o data

\* the accumulation loop: one write
WorkflowChunk(t) ==
    /\ Runs(t)
    /\ wf[t].pc = "await_chunk"
    /\ IF queue = <<>>
       THEN /\ AwaitWritten(t, queue)
            /\ UNCHANGED <<queue, wf>>
       ELSE /\ queue' = Tail(queue)
            /\ IF IsTerminator(Head(queue))
               THEN /\ wf' = [wf EXCEPT ![t].pc = "decrypt"]
                    /\ Continue(t, "decrypt")
               ELSE /\ wf' = [wf EXCEPT ![t].received_data =
                                            Accumulate(@, Head(queue))]
                    /\ AwaitWritten(t, Tail(queue))
    /\ UNCHANGED <<firmware, new_firmware, version, device, sup, conn, nconn,
                   nwrites, nfaults, upload>>

\* decrypted = cipher.decrypt(received_data)
Decrypted(t) == EcbDecrypt(Key, wf[t].received_data)

\* decrypt, hash, compare
WorkflowVerify(t) ==
    /\ Runs(t)
    /\ wf[t].pc = "decrypt"
    /\ IF DecryptRaises(wf[t].received_data)
       THEN wf' = [wf EXCEPT ![t] = Ended(@, "raised_decrypt")] /\ Finish(t)
       ELSE IF ~HashMatches(Sha1(Decrypted(t)), wf[t].target_hash)
            THEN wf' = [wf EXCEPT ![t] = Ended(@, "mismatch")] /\ Finish(t)
            ELSE wf' = [wf EXCEPT ![t].pc = "expand"] /\ Continue(t, "expand")
    /\ UNCHANGED <<firmware, new_firmware, version, device, sup, conn, queue, nconn,
                   nwrites, nfaults, upload>>

\* the operations of tar_expand that may fail for an outside reason
FaultSets(data) ==
    {F \in SUBSET (0..Len(TarRead(data).entries)) :
        Cardinality(F) <= MaxFaults - nfaults}

\* tar_expand(decrypted, "/new_firmware")
WorkflowExpand(t) ==
    /\ Runs(t)
    /\ wf[t].pc = "expand"
    /\ \E F \in FaultSets(Decrypted(t)) :
          /\ new_firmware' = TarExpand(Decrypted(t), new_firmware, F)
          /\ nfaults' = nfaults + Cardinality(F)
    /\ IF TarExpandRaises(Decrypted(t))
       THEN wf' = [wf EXCEPT ![t] = Ended(@, "raised_expand")] /\ Finish(t)
       ELSE wf' = [wf EXCEPT ![t].pc = "rmtree"] /\ Continue(t, "rmtree")
    /\ UNCHANGED <<firmware, version, device, sup, conn, queue, nconn, nwrites,
                   upload>>

\* shutil.rmtree("firmware") inside try/except OSError
Rmtree(live, fault) == IF fault THEN live ELSE NoDir

WorkflowRmtree(t) ==
    /\ Runs(t)
    /\ wf[t].pc = "rmtree"
    /\ \E fault \in BOOLEAN :
          /\ fault => (nfaults < MaxFaults /\ firmware.present)
          /\ firmware' = Rmtree(firmware, fault)
          /\ nfaults' = IF fault THEN nfaults + 1 ELSE nfaults
    /\ wf' = [wf EXCEPT ![t].pc = "rename"]
    /\ Continue(t, "rename")
    /\ UNCHANGED <<new_firmware, version, device, sup, conn, queue, nconn, nwrites,
                   upload>>

\* a rename whose error is swallowed like the one of rmtree
RenameNeverRaises(src, dst) == FALSE

\* os.rename(src, dst) raises OSError: no source, or a destination in the way
RenameRaises(src, dst) == ~src.present \/ (dst.present /\ DOMAIN dst.tree # {})

\* a copy in place of the rename: the source stays
Copied(src) == [live |-> src, staging |-> src]

\* the two directories after os.rename(src, dst) succeeded
Renamed(src) == [live |-> src, staging |-> NoDir]

\* os.rename("new_firmware", "firmware")
WorkflowRename(t) ==
    /\ Runs(t)
    /\ wf[t].pc = "rename"
    /\ \E fault \in BOOLEAN :
          /\ fault => nfaults < MaxFaults
          /\ nfaults' = IF fault THEN nfaults + 1 ELSE nfaults
          /\ IF fault \/ RenameRaises(new_firmware, firmware)
             THEN /\ wf' = [wf EXCEPT ![t] = Ended(@, "raised_rename")]
                  /\ Finish(t)
                  /\ UNCHANGED <<firmware, new_firmware>>
             ELSE /\ firmware' = Renamed(new_firmware).live
                  /\ new_firmware' = Renamed(new_firmware).staging
                  /\ wf' = [wf EXCEPT ![t].pc = "reset"]
                  /\ Continue(t, "reset")
    /\ UNCHANGED <<version, device, sup, conn, queue, nconn, nwrites, upload>>

\* machine.soft_reset()
WorkflowReset(t) ==
    /\ Runs(t)
    /\ wf[t].pc = "reset"
    /\ wf' = [wf EXCEPT ![t] = Ended(@, "restarted")]
    /\ device' = "resetting"
    /\ cur' = NoTask
    /\ runq' = <<>>
    /\ UNCHANGED <<firmware, new_firmware, version, sup, conn, queue, nconn,
                   nwrites, nfaults, upload>>

(***************************************************************************)
(* main(): after the reset the agent starts again on the same filesystem;  *)
(* the tasks, the link and the captured writes of the previous run are     *)
(* gone.                                                                   *)
(***************************************************************************)
Boot ==
    /\ device = "resetting"
    /\ device' = "running"
    /\ sup' = "init"
    /\ conn' = "none"
    /\ queue' = <<>>
    /\ version' = <<>>
    /\ wf' = [i \in Tasks |->
                 IF wf[i].pc \in ActivePcs THEN Ended(wf[i], "killed")
                 ELSE wf[i]]
    /\ runq' = <<Supervisor>>
    /\ cur' = NoTask
    /\ UNCHANGED <<firmware, new_firmware, nconn, nwrites, nfaults, upload>>

\* a peer that is not the uploader: it connects, writes and disconnects as
\* it likes
PeerConnect == Connect /\ UNCHANGED upload

PeerDisconnect == Disconnect /\ UNCHANGED upload

PeerWrite(data) == Write(data) /\ UNCHANGED upload

Next ==
    \/ AdvertiseStart
    \/ PeerConnect
    \/ SupervisorSpawn
    \/ PeerDisconnect
    \/ SupervisorCancel
    \/ \E data \in PeerWrites : PeerWrite(data)
    \/ \E t \in Tasks : WorkflowCancelled(t)
    \/ \E t \in Tasks : WorkflowStart(t)
    \/ \E t \in Tasks : WorkflowDigest(t)
    \/ \E t \in Tasks : WorkflowChunk(t)
    \/ \E t \in Tasks : WorkflowVerify(t)
    \/ \E t \in Tasks : WorkflowExpand(t)
    \/ \E t \in Tasks : WorkflowRmtree(t)
    \/ \E t \in Tasks : WorkflowRename(t)
    \/ \E t \in Tasks : WorkflowReset(t)
    \/ Boot

Spec == Init /\ [][Next]_vars

(***************************************************************************)
(* The peers follow their runs: each run connects (BleakClient), performs  *)
(* its writes in order and disconnects; the link may also drop at any      *)
(* time, which ends the run.                                               *)
(***************************************************************************)
SessionInit ==
    /\ DeviceInit
    /\ upload \in {[runs |-> r, run |-> 0, sent |-> 0] : r \in Sessions}

UploaderConnect ==
    /\ upload.run < Len(upload.runs)
    /\ Connect
    /\ upload' = [upload EXCEPT !.run = @ + 1, !.sent = 0]

UploaderWrite ==
    /\ upload.run >= 1
    /\ upload.sent < Len(upload.runs[upload.run])
    /\ Write(upload.runs[upload.run][upload.sent + 1])
    /\ upload' = [upload EXCEPT !.sent = @ + 1]

UploaderDisconnect == Disconnect /\ UNCHANGED upload

SessionNext ==
    \/ AdvertiseStart
    \/ UploaderConnect
    \/ SupervisorSpawn
    \/ UploaderDisconnect
    \/ SupervisorCancel
    \/ UploaderWrite
    \/ \E t \in Tasks : WorkflowCancelled(t)
    \/ \E t \in Tasks : WorkflowStart(t)
    \/ \E t \in Tasks : WorkflowDigest(t)
    \/ \E t \in Tasks : WorkflowChunk(t)
    \/ \E t \in Tasks : WorkflowVerify(t)
    \/ \E t \in Tasks : WorkflowExpand(t)
    \/ \E t \in Tasks : WorkflowRmtree(t)
    \/ \E t \in Tasks : WorkflowRename(t)
    \/ \E t \in Tasks : WorkflowReset(t)
    \/ Boot

SessionSpec == SessionInit /\ [][SessionNext]_vars

\* the event loop (asyncio.get_event_loop().run_forever()) resumes every task
\* that is ready: the supervisor, and a workflow that is to start or to take
\* its CancelledError; and a reset boots the agent again
SupervisorStep == AdvertiseStart \/ SupervisorSpawn \/ SupervisorCancel \/ Boot

WorkflowWake == \E t \in Tasks : WorkflowCancelled(t) \/ WorkflowStart(t)

\* a workflow that holds the processor runs on to its next await or to its
\* end: the step of a task that has not suspended
HolderStep ==
    \E t \in Tasks :
        /\ Holds(t)
        /\ \/ WorkflowDigest(t) \/ WorkflowChunk(t) \/ WorkflowVerify(t)
           \/ WorkflowExpand(t) \/ WorkflowRmtree(t) \/ WorkflowRename(t)
           \/ WorkflowReset(t)

\* the states where HolderStep can be taken: each of these steps has an
\* outcome without a fault
HolderReady ==
    \E t \in Tasks : Holds(t) /\ wf[t].pc \in AwaitingPcs \cup RunningPcs

\* weak fairness of HolderStep, with HolderReady for its enabling condition
HolderFair == []<>(~HolderReady) \/ []<><<HolderStep>>_vars

FairSpec == Spec /\ WF_vars(SupervisorStep) /\ WF_vars(WorkflowWake) /\ HolderFair

(***************************************************************************)
(* Properties.                                                             *)
(***************************************************************************)
\* workflow t is the one of the latest connection
Latest(t) == t = nconn

\* both directories are as they were when workflow t was created
Untouched(t) == firmware = wf[t].live0 /\ new_firmware = wf[t].stage0

\* the steps a workflow only reaches when its digest check passed
VerifiedPcs == {"expand", "rmtree", "rename", "reset"}

\* what tar_expand can leave in the staging directory of workflow t
Staged(t) ==
    {TarExpand(Decrypted(t), wf[t].stage0, F) :
        F \in SUBSET (0..Len(TarRead(Decrypted(t)).entries))}

\* C1: a workflow whose terminator arrived and whose computed digest differs
\* from the received one ends there (no step after the check is ever reached
\* with differing digests), and while it is the latest workflow the staging
\* and the live directory are as they were when it started and the device
\* has not been reset.
C1_DigestMismatchLeavesNoTrace ==
    \A t \in Tasks :
        /\ wf[t].pc \in VerifiedPcs => Sha1(Decrypted(t)) = wf[t].target_hash
        /\ (wf[t].pc = "mismatch" /\ Latest(t)) =>
               (Untouched(t) /\ device = "running")

C1_Witness ==
    \E t \in Tasks :
        /\ wf[t].pc = "mismatch"
        /\ Latest(t)
        /\ firmware.present

\* C2: a workflow goes past its first chunk only when that chunk has 20
\* bytes; one that ended on a first chunk of another length has left both
\* directories as they were and the device running, whatever was written
\* after that chunk on its connection.
C2_BadFirstChunkAborts ==
    \A t \in Tasks :
        /\ wf[t].pc \in {"await_chunk", "decrypt"} \cup VerifiedPcs =>
               Len(wf[t].target_hash) = HashLen
        /\ (wf[t].pc = "badlen" /\ Latest(t)) =>
               (Untouched(t) /\ device = "running")

C2_Witness ==
    \E t \in Tasks :
        /\ wf[t].pc = "badlen"
        /\ Latest(t)
        /\ conn = "connected"
        /\ Len(queue) >= 2
        /\ firmware.present

\* workflow t reads the zero-length write in this step
ReadsTerminator(t) ==
    /\ wf[t].pc = "await_chunk"
    /\ queue # <<>>
    /\ Head(queue) = <<>>
    /\ queue' = Tail(queue)

\* the states of a workflow that has read no terminator
UnterminatedPcs == {"created", "await_digest", "await_chunk", "badlen", "cancelled"}

\* C3: as long as the latest workflow has read no zero-length write, the live
\* directory is as it was when the workflow started, however much data it
\* has accumulated and whether or not the link has dropped; and a step
\* other than reading the zero-length write keeps the workflow in these
\* states and leaves the live directory alone.
C3_NoTerminatorNoChange ==
    /\ [](\A t \in Tasks :
             (Latest(t) /\ wf[t].pc \in UnterminatedPcs) => firmware = wf[t].live0)
    /\ [][\A t \in Tasks :
             (Latest(t) /\ wf[t].pc \in UnterminatedPcs /\ ~ReadsTerminator(t)) =>
                 (firmware' = firmware /\
                  (nconn' = nconn => wf'[t].pc \in UnterminatedPcs))]_vars

C3_Witness ==
    \E t \in Tasks :
        /\ wf[t].pc = "await_chunk"
        /\ Len(wf[t].received_data) >= 2 * BlockLen
        /\ conn = "dropped"
        /\ firmware.present

\* C4: once the swap of the latest workflow is done (the workflow is about to
\* reset or has reset the device) the staging directory no longer exists and
\* the live directory exists; before the reset it holds exactly what
\* tar_expand staged, so nothing of the previous live tree is left.
C4_SwapReplacesLive ==
    \A t \in Tasks :
        /\ (Latest(t) /\ wf[t].pc \in {"reset", "restarted"}) =>
               (firmware.present /\ ~new_firmware.present)
        /\ wf[t].pc = "reset" => firmware \in Staged(t)

C4_Witness ==
    \E t \in Tasks :
        /\ wf[t].pc = "restarted"
        /\ wf[t].live0 = Dir(OldTree)
        /\ firmware.present
        /\ <<VersionName>> \in DOMAIN firmware.tree
        /\ firmware.tree[<<VersionName>>].data = <<"1", ".", "0", ".", "0">>

\* C5: while a workflow is the latest one, the live directory is either as
\* it was when the workflow started or replaced by the staged tree (swap
\* done, staging gone): in no state is the live path left with neither.
C5_LiveIsOldOrNew ==
    \A t \in Tasks :
        Latest(t) =>
            \/ firmware = wf[t].live0
            \/ /\ wf[t].pc \in {"reset", "restarted"}
               /\ firmware.present
               /\ ~new_firmware.present

\* a zero-length write has been captured and not read yet
TerminatorCaptured == \E k \in 1..Len(queue) : queue[k] = <<>>

\* the latest workflow t, awaiting a write while the link is down, ends by
\* cancellation or by the length check, or keeps awaiting, and the
\* directories stay as they are
StaysAborted(t) ==
    /\ wf'[t].pc \in AwaitingPcs \cup {"cancelled", "badlen"}
    /\ firmware' = firmware
    /\ new_firmware' = new_firmware

\* C6 as stated: when the link has dropped while the latest workflow awaits
\* the digest or a chunk, the workflow does not go on to the steps after the
\* terminator: it ends cancelled and changes neither directory.
C6_DropAlwaysCancels ==
    [][\A t \in Tasks :
          (Latest(t) /\ conn = "dropped" /\ wf[t].pc \in AwaitingPcs) =>
              StaysAborted(t)]_vars

\* C6, amended: the same, provided no zero-length write was captured before
\* the link dropped.  Moreover a workflow with a pending or delivered
\* cancellation is awaiting a write or has ended by the normal return of the
\* CancelledError handler, and it has changed neither directory; and once
\* the supervisor has handled the drop, a workflow that has not ended has
\* been cancelled.
C6_DropCancelsCleanly ==
    /\ [][\A t \in Tasks :
             (Latest(t) /\ conn = "dropped" /\ wf[t].pc \in AwaitingPcs
                        /\ ~TerminatorCaptured) => StaysAborted(t)]_vars
    /\ [](\A t \in Tasks :
             /\ wf[t].cancel => wf[t].pc \in AwaitingPcs \cup {"cancelled"}
             /\ (wf[t].cancel /\ Latest(t)) => Untouched(t)
             /\ (Latest(t) /\ sup = "advertising" /\ conn = "none"
                           /\ wf[t].pc \in ActivePcs) => wf[t].cancel)

C6_Witness ==
    \E t \in Tasks :
        /\ wf[t].pc = "cancelled"
        /\ Latest(t)
        /\ nwrites >= 2
        /\ queue = <<>>
        /\ firmware.present

\* C7: a workflow in one of the steps after the terminator (decrypt, verify,
\* extract, delete, rename, reset) holds the processor: it is not waiting to
\* be resumed and no cancellation is pending for it, so a cancel cannot land
\* between these steps; and a workflow ended by cancellation has left the
\* live directory as it was.
C7_NoCancelInsideSwap ==
    \A t \in Tasks :
        /\ (device = "running" /\ wf[t].pc \in RunningPcs) =>
               (cur = t /\ ~wf[t].cancel /\ ~InRunq(t))
        /\ (wf[t].pc = "cancelled" /\ Latest(t)) => firmware = wf[t].live0

C7_Witness ==
    \E t \in Tasks :
        /\ wf[t].pc = "rename"
        /\ conn = "dropped"
        /\ InRunq(Supervisor)
        /\ wf[t].live0.present
        /\ ~firmware.present

\* a workflow that is neither finished nor cancelled
Active(t) == wf[t].pc \in ActivePcs /\ ~wf[t].cancel

\* C8: at most one workflow is active; an active workflow is the one of the
\* latest connection and the supervisor is waiting for that connection to
\* drop; every earlier workflow has ended, so it reads no write and takes no
\* filesystem step once the next one exists.
C8_OneActiveWorkflow ==
    /\ Cardinality({t \in Tasks : Active(t)}) <= 1
    /\ \A t \in Tasks :
          /\ Active(t) => (Latest(t) /\ sup = "waiting")
          /\ t < nconn => wf[t].pc \notin ActivePcs

C8_Witness ==
    /\ nconn = 2
    /\ wf[1].pc = "cancelled"
    /\ wf[2].pc = "await_chunk"
    /\ Active(2)

\* the ends of a workflow by a malformed first chunk, a digest mismatch or a
\* decode failure (misaligned ciphertext, unreadable stream)
FailedPcs == {"badlen", "mismatch", "raised_decrypt", "raised_expand"}

\* the latest workflow has failed and its peer has disconnected
FailedAndDropped == nconn >= 1 /\ wf[nconn].pc \in FailedPcs /\ conn = "dropped"

\* the supervisor is back in aioble.advertise and the link is free
AdvertisingAgain == device = "running" /\ sup = "advertising" /\ conn = "none"

\* C9: when the latest workflow has ended by a malformed first chunk, a digest
\* mismatch or a decode failure and the peer has disconnected, the
\* supervisor eventually advertises again with the link free, where the
\* next connection gets a new workflow.
C9_FailureKeepsAdvertising == FailedAndDropped ~> AdvertisingAgain

C9_Witness ==
    /\ nconn = 2
    /\ wf[1].pc = "raised_expand"
    /\ wf[2].pc = "await_chunk"
    /\ ~wf[2].cancel

\* the ends of a workflow that is aborted, failed or cancelled
AbortedPcs == FailedPcs \cup {"raised_rename", "cancelled", "killed"}

\* C10: the device resets only out of the last step of a workflow whose swap
\* is done.  A workflow about to reset holds the processor, is the latest
\* one, received a 20 byte digest that equals the digest of the decrypted
\* data, read the archive to its end, and has put the staged tree at the live
\* path with the staging path gone; while the device resets, that workflow
\* is the one that restarted it; and while an aborted, failed or cancelled
\* workflow is the latest one, the device has not been reset.
C10_ResetOnlyAfterSwap ==
    /\ \A t \in Tasks :
          /\ wf[t].pc = "reset" =>
                /\ Latest(t) /\ cur = t /\ device = "running"
                /\ Len(wf[t].target_hash) = HashLen
                /\ ~DecryptRaises(wf[t].received_data)
                /\ Sha1(Decrypted(t)) = wf[t].target_hash
                /\ TarRead(Decrypted(t)).ok
                /\ firmware.present /\ firmware \in Staged(t)
                /\ ~new_firmware.present
          /\ (wf[t].pc \in AbortedPcs /\ Latest(t)) => device = "running"
    /\ device = "resetting" =>
          /\ nconn >= 1
          /\ wf[nconn].pc = "restarted"
          /\ firmware.present
          /\ ~new_firmware.present

C10_Witness ==
    /\ device = "resetting"
    /\ nconn = 2
    /\ wf[1].pc \in AbortedPcs
    /\ wf[2].pc = "restarted"
    /\ wf[2].live0.present

\* C11: while a workflow that ended in a decode failure (the digest matched,
\* the stream could not be read to its end) is the latest one, the staging
\* and the live directory are as they were when it started.
C11_DecodeFailureNoMutation ==
    \A t \in Tasks :
        (wf[t].pc = "raised_expand" /\ Latest(t)) => Untouched(t)

\* the digests the uploader transmits for its payloads
UploadDigests == {GoodDigest, BrokenDigest}

\* workflow t has read an uploader's digest and then the zero-length write,
\* with no data in between, and is about to decrypt and compare
DigestThenTerminator(t) ==
    /\ wf[t].pc = "decrypt"
    /\ wf[t].target_hash \in UploadDigests
    /\ wf[t].received_data = <<>>

\* C12: a workflow that read the correct digest and then at once the
\* zero-length write decrypts an empty buffer without error, compares the
\* digest of the empty buffer, which differs from the received one, and its
\* next step ends it on the mismatch with both directories and the device
\* as they are; and no workflow with an uploader's digest is past the check
\* with an empty buffer, so no extraction, deletion, rename or reset follows.
C12_EmptyPayloadFailsCheck ==
    /\ [](\A t \in Tasks :
             /\ DigestThenTerminator(t) =>
                   /\ ~DecryptRaises(wf[t].received_data)
                   /\ Decrypted(t) = <<>>
                   /\ Sha1(<<>>) # wf[t].target_hash
             /\ (wf[t].pc \in VerifiedPcs /\ wf[t].target_hash \in UploadDigests) =>
                   wf[t].received_data # <<>>)
    /\ [][\A t \in Tasks :
             DigestThenTerminator(t) =>
                 /\ wf'[t].pc \in {"decrypt", "mismatch"}
                 /\ firmware' = firmware
                 /\ new_firmware' = new_firmware
                 /\ device' = device]_vars

\* the only two writes were the digest and the zero-length write, and the
\* workflow ended on the mismatch
C12_Witness ==
    /\ nconn = 1
    /\ wf[1].pc = "mismatch"
    /\ nwrites = 2
    /\ queue = <<>>
    /\ firmware.present

(***************************************************************************)
(* The uploader as the peer (SessionSpec).                                 *)
(***************************************************************************)
\* what the uploader computes for each source directory
Uploads ==
    [t \in SourceTrees |->
        [digest |-> UploadDigest(Archive(t)), cipher |-> UploadCipher(Archive(t)),
         writes |-> UploaderRun(t)]]

\* the only run of the session is the uploader's run on source directory t
UploadOf(t) == upload.runs = <<Uploads[t].writes>>

\* C13: for every source directory the uploader's payload passes the device's
\* digest check and is extracted to the same files and directories: the
\* ciphertext is a whole number of blocks, the device never fails on it, the
\* digest it computes over the decrypted bytes is the digest transmitted, and
\* without filesystem faults the staging tree, and after the swap the live
\* tree, is the source directory.
C13_RoundTrip ==
    \A t \in SourceTrees :
        UploadOf(t) =>
            /\ Len(Uploads[t].cipher) % BlockLen = 0
            /\ wf[1].pc \notin FailedPcs
            /\ wf[1].pc \in {"await_chunk", "decrypt"} =>
                  wf[1].target_hash = Uploads[t].digest
            /\ wf[1].pc = "decrypt" =>
                  /\ wf[1].received_data = Uploads[t].cipher
                  /\ Sha1(Decrypted(1)) = wf[1].target_hash
            /\ (wf[1].pc \in {"rmtree", "rename"} /\ nfaults = 0) =>
                  new_firmware = Dir(t)
            /\ (wf[1].pc \in {"reset", "restarted"} /\ nfaults = 0) =>
                  firmware = Dir(t)

\* the number of data writes for a ciphertext, and the k-th of them
NumChunks(c) == (Len(c) + ChunkLen - 1) \div ChunkLen

ChunkAt(c, k) == SubSeq(c, ChunkLen * (k - 1) + 1, Min(ChunkLen * k, Len(c)))

\* the write just captured
LastWrite == queue'[Len(queue')]

\* C14: the writes of a run of the uploader are the 20-byte digest, then the
\* ciphertext in order in chunks of 1 to 20 bytes that together are the whole
\* ciphertext, then one zero-length write and nothing more; the device reads
\* the terminator only when it has accumulated the whole ciphertext.
C14_UploaderWrites ==
    /\ [][\A t \in SourceTrees :
             (UploadOf(t) /\ nwrites' = nwrites + 1) =>
                 LET c == Uploads[t].cipher
                     k == nwrites'
                 IN  /\ k <= NumChunks(c) + 2
                     /\ k = 1 => LastWrite = Uploads[t].digest /\ Len(LastWrite) = HashLen
                     /\ (1 < k /\ k <= NumChunks(c) + 1) =>
                           /\ LastWrite = ChunkAt(c, k - 1)
                           /\ Len(LastWrite) >= 1
                           /\ Len(LastWrite) <= ChunkLen
                     /\ k = NumChunks(c) + 2 => LastWrite = <<>>]_vars
    /\ [](\A t \in SourceTrees :
             UploadOf(t) =>
                 /\ wf[1].pc = "await_chunk" =>
                       /\ wf[1].received_data =
                              Take(Uploads[t].cipher, Len(wf[1].received_data))
                       /\ Len(wf[1].received_data) =
                              Min(ChunkLen * (nwrites - Len(queue) - 1),
                                  Len(Uploads[t].cipher))
                 /\ wf[1].pc = "decrypt" => wf[1].received_data = Uploads[t].cipher)

\* the uploader has written a ciphertext of more than one chunk to its end and
\* the device has read it all
C14_Witness ==
    \E t \in SourceTrees :
        /\ UploadOf(t)
        /\ NumChunks(Uploads[t].cipher) > 1
        /\ upload.sent = NumChunks(Uploads[t].cipher) + 2
        /\ wf[1].pc = "decrypt"
        /\ queue = <<>>

\* the archive entries the workflow has extracted
Extracted(t) == TarRead(Decrypted(t)).entries

\* name is k times "./" followed by rest, and rest does not start with "./"
StrippedTo(name, rest) ==
    /\ Take(rest, 2) # <<".", "/">>
    /\ \E k \in 0..(Len(name) \div 2) :
          /\ \A j \in 1..k : name[2 * j - 1] = "." /\ name[2 * j] = "/"
          /\ rest = Drop(name, 2 * k)

DotInsideName == <<".", "/", "a", "/", ".", "/", "b", ".", "t", "x", "t">>

DotInsidePath == << <<"a">>, <<"b", ".", "t", "x", "t">> >>

\* the archive has the directory ./a and later the file ./a/./b.txt
HasDotInside(entries) ==
    \E i, j \in 1..Len(entries) :
        /\ i < j
        /\ entries[i].name = <<".", "/", "a">> /\ entries[i].type = "dir"
        /\ entries[j].name = DotInsideName /\ entries[j].type = "file"

\* C15: the name an entry is materialized under is its name without all of
\* its leading "./", and after an extraction without faults into a new staging
\* directory the entry ./a/./b.txt is the file a/b.txt below the root.
C15_PathNormalization ==
    \A t \in Tasks :
        wf[t].pc = "rmtree" =>
            /\ \A i \in 1..Len(Extracted(t)) :
                  StrippedTo(Extracted(t)[i].name, StripDotSlash(Extracted(t)[i].name))
            /\ (HasDotInside(Extracted(t)) /\ nfaults = 0 /\ ~wf[t].stage0.present) =>
                  /\ DotInsidePath \in DOMAIN new_firmware.tree
                  /\ new_firmware.tree[DotInsidePath] = FileNode(<<"b">>)

\* the archive with ./a/./b.txt has been extracted
C15_Witness ==
    /\ wf[1].pc = "rmtree"
    /\ HasDotInside(Extracted(1))
    /\ nfaults = 0
    /\ DotInsidePath \in DOMAIN new_firmware.tree

(***************************************************************************)
(* The version characteristic.                                             *)
(***************************************************************************)
\* the supervisor starts to advertise for a new connection
StartsAdvertising == sup # "advertising" /\ sup' = "advertising"

\* the step runs the read of the version file at the top of advertise()
ReadsVersionFile == sup = "init" /\ version' = VersionRead(firmware, version)

\* C16: every time the supervisor starts advertising for a new connection, the
\* step reads the version file of the live tree into the characteristic.
C16_VersionReadEveryCycle == [][StartsAdvertising => ReadsVersionFile]_vars

(***************************************************************************)
(* The accumulation, for the first connection after power-up: nothing was  *)
(* captured before it.                                                     *)
(***************************************************************************)
RECURSIVE Concat(_)
Concat(ss) == IF ss = <<>> THEN <<>> ELSE Head(ss) \o Concat(Tail(ss))

\* the writes of the first run, and how many of them have been read
FirstRun == upload.runs[1]

NumRead == upload.sent - Len(queue)

\* C17: while the first workflow accumulates, its buffer is the concatenation,
\* in the order written, of the writes read after the digest, none of them
\* empty; once it has read the terminator the buffer is the concatenation of
\* all writes between the digest and the first zero-length write, and every
\* write after that one is still unread.
C17_AccumulatesInOrder ==
    upload.run = 1 =>
        /\ wf[1].pc = "await_chunk" =>
              /\ wf[1].target_hash = FirstRun[1]
              /\ wf[1].received_data = Concat(SubSeq(FirstRun, 2, NumRead))
              /\ \A i \in 2..NumRead : FirstRun[i] # <<>>
        /\ wf[1].pc \in {"decrypt"} \cup VerifiedPcs =>
              /\ wf[1].target_hash = FirstRun[1]
              /\ FirstRun[NumRead] = <<>>
              /\ \A i \in 2..(NumRead - 1) : FirstRun[i] # <<>>
              /\ wf[1].received_data = Concat(SubSeq(FirstRun, 2, NumRead - 1))
              /\ queue = SubSeq(FirstRun, NumRead + 1, upload.sent)

\* the terminator has been read while a later write is captured
C17_Witness ==
    /\ upload.run = 1
    /\ wf[1].pc = "decrypt"
    /\ wf[1].received_data # <<>>
    /\ queue # <<>>
    /\ Head(queue) # <<>>

(***************************************************************************)
(* Extraction entry by entry.                                              *)
(***************************************************************************)
EntryPath(e) == Resolve(StripDotSlash(e.name))

EntryNode(e) == IF e.type = "dir" THEN DirNode ELSE FileNode(e.data)

\* entry i is materialized into a new staging directory: it is no pax header,
\* the filesystem does not refuse it, its directory has been made by an
\* earlier entry, and no earlier entry made a directory, or for a directory
\* anything, at its path
RECURSIVE EntryOk(_, _, _)
EntryOk(entries, faults, i) ==
    LET p == EntryPath(entries[i])
    IN  /\ i \notin faults
        /\ ~IsPaxHeader(entries[i].name)
        /\ p # <<>>
        /\ \/ Parent(p) = <<>>
           \/ \E j \in 1..(i - 1) :
                 /\ EntryPath(entries[j]) = Parent(p)
                 /\ entries[j].type = "dir"
                 /\ EntryOk(entries, faults, j)
        /\ ~\E j \in 1..(i - 1) :
                 /\ EntryPath(entries[j]) = p
                 /\ (entries[i].type = "dir" \/ entries[j].type = "dir")
                 /\ EntryOk(entries, faults, j)

\* the last materialized entry at path p
LastAt(entries, faults, p) ==
    CHOOSE i \in 1..Len(entries) :
        /\ EntryPath(entries[i]) = p
        /\ EntryOk(entries, faults, i)
        /\ \A j \in (i + 1)..Len(entries) :
              ~(EntryPath(entries[j]) = p /\ EntryOk(entries, faults, j))

\* the staging directory every entry without an error of its own has gone into
AllButFailed(entries, faults) ==
    IF 0 \in faults THEN NoDir
    ELSE Dir([p \in {EntryPath(entries[i]) :
                        i \in {k \in 1..Len(entries) : EntryOk(entries, faults, k)}} |->
                 EntryNode(entries[LastAt(entries, faults, p)])])

\* the workflow takes the step named by pc
Steps(t, pc) == wf[t].pc = pc /\ wf'[t].pc # pc

InSwap(t) == wf[t].pc \in {"rmtree", "rename"}

\* C19: the staging directory exists only while a workflow is between the
\* start of its extraction and the end of its swap; a workflow that begins to
\* extract finds it absent or empty; and the tree swapped in holds only
\* entries of the archive of that workflow.
C19_StagingOnlyDuringSwap ==
    /\ new_firmware.present => \E t \in Tasks : InSwap(t)
    /\ \A t \in Tasks :
          wf[t].pc = "expand" =>
              (~new_firmware.present \/ DOMAIN new_firmware.tree = {})
    /\ \A t \in Tasks :
          wf[t].pc = "reset" =>
              DOMAIN firmware.tree \subseteq
                  {EntryPath(Extracted(t)[i]) : i \in 1..Len(Extracted(t))}

(***************************************************************************)
(* Connections and their writes.                                           *)
(***************************************************************************)
\* the writes of the run that made connection t
WritesOf(t) == upload.runs[t]

\* buffer is some of the writes of connection t, in their order, joined
JoinedFrom(t, buffer) ==
    \E a \in 1..(Len(WritesOf(t)) + 1) :
        \E b \in (a - 1)..Len(WritesOf(t)) :
            buffer = Concat(SubSeq(WritesOf(t), a, b))

\* C20: the digest and the buffer of the workflow of a connection are made of
\* writes of that connection only.
C20_SessionIsolation ==
    \A t \in Tasks :
        (t <= Len(upload.runs) /\ wf[t].pc \in {"await_chunk", "decrypt"} \cup VerifiedPcs) =>
            /\ \E i \in 1..Len(WritesOf(t)) : wf[t].target_hash = WritesOf(t)[i]
            /\ JoinedFrom(t, wf[t].received_data)

====
